---- MODULE Spec2Model ----
(***************************************************************************)
(* Model of the environment-service configuration controller of            *)
(* pkg/deploy/configuration.go: EnvironmentServiceConfigController.        *)
(* Configure, the three Configurer strategies (cache, data-mongo,          *)
(* data-mysql), the job-watch goroutines they spawn, and the dependency    *)
(* dispatch / wait functions.                                              *)
(***************************************************************************)
EXTENDS Integers, Sequences, FiniteSets, TLC

VARIABLES
  pc,          \* position of the goroutine running Configure
  services,    \* result of FindDeploymentConfigsByLabel: rhmap/name label of each sibling
  deployment,  \* the DeploymentConfig shared by reference with every Configurer
  idx,         \* index of the range loop over services
  configured,  \* the map configured (its key set)
  err,         \* Configure's local variable err
  errs,        \* Configure's local slice errs
  wg,          \* counter of the sync.WaitGroup of this call
  watchers,    \* the job-watch goroutines, by service kind
  published,   \* every StatusPublisher.Publish call, in order
  persisted,   \* every descriptor handed to UpdateDeployConfigInNamespace, in order
  ret,         \* what Configure returned
  cur,         \* the Configurer call in progress
  calls,       \* the Configurer calls that have ended, in order
  createCalls, \* number of CreateJobToWatch calls, by service kind
  cluster,     \* what the cluster holds for each data service during the call
  random,      \* what math/rand and the map iteration order yield during the call
  dependencies,  \* waitForDependencies: the Dispatched handles it is given
  wpc,           \* waitForDependencies: position of the calling goroutine
  tasks,         \* waitForDependencies: the polling goroutines, one per dependency
  depErrors,     \* waitForDependencies: the slice depErrors
  now,           \* seconds of wall-clock time since the minute in which the call began
  wret,          \* what waitForDependencies returned
  template,      \* deployDependencyServices: the Template it is given (its annotations)
  dpc,           \* deployDependencyServices: position of the call
  templateCalls, \* deployDependencyServices: every Deployer.Template call, in order
  dret,          \* what deployDependencyServices returned
  store,         \* the statuses kept by the status store, in the order of their Publish
  lastAction     \* the LastAction requests served, with what Get answered

cvars == <<pc, services, deployment, idx, configured, err, errs, wg, watchers,
           published, persisted, ret, cur, calls, createCalls, cluster, random>>

wvars == <<dependencies, wpc, tasks, depErrors, now, wret>>

dvars == <<template, dpc, templateCalls, dret>>

svars == <<store, lastAction>>

vars == <<cvars, wvars, dvars, svars>>

-----------------------------------------------------------------------------
\* Bounds of the model.
MaxServices == 2
MaxEvents == 1
MaxDependencies == 2
MaxClock == 400
MaxNames == 3
MaxPublished == 2

-----------------------------------------------------------------------------
\* Constants of the program.
configInProgress == "in progress"
configError == "failed"
configComplete == "succeeded"

templateCacheRedis == "cache"
templateDataMongo == "data-mongo"
templateDataMysql == "data-mysql"

genPassLength == 16

Nil == "nil"
NoLabel == "<no label>"
NilInterface == "<nil interface>"

config == [DeploymentName |-> "app1", NameSpace |-> "ns", Action |-> "provision",
           InstanceID |-> "app1"]

\* strings.Join([]string{instanceID, operation}, ":")
StatusKey_InstanceOnly(instanceID, operation) == instanceID

StatusKey(instanceID, operation) == instanceID \o ":" \o operation

\* One StatusPublisher.Publish call made by `by` under the call's status key.
Pub(by, status, msg) ==
  [key |-> StatusKey(config.InstanceID, config.Action), by |-> by,
   status |-> status, msg |-> msg]

EnvVar(n, v) == [name |-> n, value |-> v]

HasLabel(d, l) == d.labels[l] # NoLabel

\* Index of the first entry of env named n, 0 when there is none.
FirstNamed(env, n) ==
  IF \E i \in 1..Len(env) : env[i].name = n
  THEN CHOOSE i \in 1..Len(env) :
         /\ env[i].name = n
         /\ \A j \in 1..(i - 1) : env[j].name # n
  ELSE 0

\* Value of the last entry of env named n, dflt when there is none.
LastValue(env, n, dflt) ==
  IF \E i \in 1..Len(env) : env[i].name = n
  THEN env[CHOOSE i \in 1..Len(env) :
             /\ env[i].name = n
             /\ \A j \in (i + 1)..Len(env) : env[j].name # n].value
  ELSE dflt

\* The update-or-append loop over one container's Env.
Upsert(env, n, v) ==
  IF FirstNamed(env, n) # 0
  THEN [env EXCEPT ![FirstNamed(env, n)].value = v]
  ELSE Append(env, EnvVar(n, v))

\* `if v, ok := deployment.Labels["rhmap/name"]; ok { if v == esName {`
IsOwnDeploymentConfig_Never(depl, esName) == FALSE

IsOwnDeploymentConfig(depl, esName) ==
  HasLabel(depl, "rhmap/name") /\ depl.labels["rhmap/name"] = esName

\* The loop over containerEnv that looks for the admin credential
FoundEnvVar_Always(containerEnv, n) == TRUE

FoundEnvVar(containerEnv, n) == FirstNamed(containerEnv, n) # 0

\* `existingJob != nil` after FindJobByName
ExistingJob_Ignored(c) == FALSE

ExistingJob(c) == c.job = "found"

\* genPass(length): the strings it can return, abridged to two of them.
genPass(length) ==
  {p \in {"aB3dE6gH9jK2mN5q", "Zy8Xw7Vu6Ts5Rq4P"} : Len(p) = length}

\* What a Configurer call leaves behind.
Result(depl, pubs, e, lookups) ==
  [depl |-> depl, err |-> e, panicked |-> FALSE, pubs |-> pubs, spawn |-> FALSE,
   createCalls |-> 0, lookups |-> lookups, loads |-> 0]

-----------------------------------------------------------------------------
\* CacheRedisConfigure.Configure

CacheEnv(env) ==
  IF \E i \in 1..Len(env) : env[i].name = "FH_REDIS_HOST" /\ env[i].value # "data-cache"
  THEN [env EXCEPT ![CHOOSE i \in 1..Len(env) :
                       /\ env[i].name = "FH_REDIS_HOST" /\ env[i].value # "data-cache"
                       /\ \A j \in 1..(i - 1) :
                            ~(env[j].name = "FH_REDIS_HOST" /\ env[j].value # "data-cache")
                    ].value = "data-cache"]
  ELSE env

CacheRedisConfigure(depl) ==
  LET start == <<Pub("cache", configInProgress, "starting configuration of cache")>>
  IN IF IsOwnDeploymentConfig(depl, "cache")
     THEN Result(depl,
                 start \o <<Pub("cache", configInProgress,
                                "no need to configure own DeploymentConfig")>>,
                 Nil, 0)
     ELSE Result([depl EXCEPT !.containers =
                    [ci \in DOMAIN depl.containers |-> CacheEnv(depl.containers[ci])]],
                 start \o <<Pub("cache", configInProgress, "updating containers env")>>,
                 Nil, 0)

-----------------------------------------------------------------------------
\* DataMongoConfigure.Configure, up to its return statement

constructMongoURL(host, user, pass, db, replicaSet) ==
  LET url == "mongodb://" \o user \o ":" \o pass \o "@" \o host \o ":27017/" \o db
  IN IF "" # replicaSet THEN url \o "?replicaSet=" \o replicaSet ELSE url

MongoFail(depl, start, msg, e, lookups) ==
  Result(depl, start \o <<Pub(templateDataMongo, configError, msg)>>, e, lookups)

\* c: what the cluster holds; p: the password drawn and the outcome of the
\* template load, render, decode and of CreateJobToWatch.
DataMongoConfigure(depl, c, p) ==
  LET esName == "data-mongo"
      start == <<Pub(esName, configInProgress, "starting configuration of data-mongo service")>>
      containerEnv == c.dataEnv
      foundAdminPassword == FoundEnvVar(containerEnv, "MONGODB_ADMIN_PASSWORD")
      replicaSet == LastValue(containerEnv, "MONGODB_REPLICA_NAME", NilInterface)
      dbhost == c.svcName
      database == IF HasLabel(depl, "rhmap/guid") THEN depl.labels["rhmap/guid"]
                  ELSE depl.name
      mongoURL == constructMongoURL(dbhost, database, p.pass, database, replicaSet)
      mutated == [depl EXCEPT !.containers =
                    [ci \in DOMAIN depl.containers |->
                       Upsert(depl.containers[ci], "FH_MONGODB_CONN_URL", mongoURL)]]
  IN IF IsOwnDeploymentConfig(depl, esName)
     THEN Result(depl,
                 start \o <<Pub(esName, configInProgress,
                                "no need to configure data-mongo DeploymentConfig")>>,
                 Nil, 0)
     ELSE IF c.job = "err"
     THEN Result(depl, start \o <<Pub(esName, "error", "error finding existing Job")>>, Nil, 1)
     ELSE IF ExistingJob(c)
     THEN Result(depl,
                 start \o <<Pub(esName, "complete", "configuration job already exists")>>,
                 Nil, 1)
     ELSE IF c.dc = "err"
     THEN MongoFail(depl, start, "failed to find data DeploymentConfig", "lookup error", 2)
     ELSE IF c.dc = "empty"
     THEN MongoFail(depl, start, "no data DeploymentConfig exists. Cannot continue",
                    "no data DeploymentConfig exists. Cannot continue", 2)
     ELSE IF c.svc = "err"
     THEN MongoFail(depl, start, "failed to find data service", "lookup error", 3)
     ELSE IF c.svc = "empty"
     THEN MongoFail(depl, start, "no service for data found. Cannot continue",
                    "no service for data found. Cannot continue", 3)
     ELSE IF ~foundAdminPassword
     THEN MongoFail(depl, start, "expected to find an admin password",
                    "expected to find an admin password", 3)
     ELSE IF replicaSet = NilInterface
     THEN \* replicaSet.(string) on the nil interface of a missing map key panics
          [Result(depl, start, Nil, 3) EXCEPT !.panicked = TRUE]
     ELSE IF p.load = "err"
     THEN [MongoFail(mutated, start, "failed to load job template",
                     "failed to load template data-mongo-job", 3) EXCEPT !.loads = 1]
     ELSE IF p.exec = "err"
     THEN [MongoFail(mutated, start, "failed to execute template",
                     "failed to execute template", 3) EXCEPT !.loads = 1]
     ELSE IF p.decode = "err"
     THEN [Result(mutated, start \o <<Pub(esName, "error", "failed to Decode job")>>,
                  "failed to Decode job", 3) EXCEPT !.loads = 1]
     ELSE IF p.create = "err"
     THEN [MongoFail(mutated, start, "failed to CreateJobToWatch", "create error", 3)
             EXCEPT !.loads = 1, !.createCalls = 1]
     ELSE [Result(mutated, start, Nil, 3)
             EXCEPT !.loads = 1, !.createCalls = 1, !.spawn = TRUE]

-----------------------------------------------------------------------------
\* DataMysqlConfigure.Configure, up to its return statement

MysqlFail(depl, start, msg, e, lookups) ==
  Result(depl, start \o <<Pub(templateDataMysql, configError, msg)>>, e, lookups)

\* The orders in which `range envFromOpts` can visit the three keys of the map.
envFromOptsOrders ==
  {<<"MYSQL_USER", "MYSQL_PASSWORD", "MYSQL_DATABASE">>,
   <<"MYSQL_USER", "MYSQL_DATABASE", "MYSQL_PASSWORD">>,
   <<"MYSQL_PASSWORD", "MYSQL_USER", "MYSQL_DATABASE">>,
   <<"MYSQL_PASSWORD", "MYSQL_DATABASE", "MYSQL_USER">>,
   <<"MYSQL_DATABASE", "MYSQL_USER", "MYSQL_PASSWORD">>,
   <<"MYSQL_DATABASE", "MYSQL_PASSWORD", "MYSQL_USER">>}

MysqlEnv(env, order, jobOpts) ==
  LET optsName == [n \in {"MYSQL_USER", "MYSQL_PASSWORD", "MYSQL_DATABASE"} |->
                     CASE n = "MYSQL_USER" -> "user-username"
                       [] n = "MYSQL_PASSWORD" -> "user-password"
                       [] OTHER -> "user-database"]
      e1 == Upsert(env, order[1], jobOpts[optsName[order[1]]])
      e2 == Upsert(e1, order[2], jobOpts[optsName[order[2]]])
  IN Upsert(e2, order[3], jobOpts[optsName[order[3]]])

DataMysqlConfigure(depl, c, p) ==
  LET start == <<Pub(templateDataMysql, configInProgress,
                     "starting configuration of data service")>>
      containerEnv == c.dataEnv
      found == FoundEnvVar(containerEnv, "MYSQL_ROOT_PASSWORD")
      v == IF depl.labels["rhmap/guid"] = "" THEN depl.name ELSE depl.labels["rhmap/guid"]
      databaseUser == v
      jobOpts == [o \in {"user-database", "user-password", "user-username"} |->
                    CASE o = "user-database" -> v
                      [] o = "user-password" -> p.pass
                      [] OTHER -> IF Len(databaseUser) > 16
                                  THEN SubSeq(databaseUser, 1, 16) ELSE databaseUser]
      mutated == [depl EXCEPT !.containers =
                    [ci \in DOMAIN depl.containers |->
                       MysqlEnv(depl.containers[ci], p.order, jobOpts)]]
  IN IF IsOwnDeploymentConfig(depl, templateDataMysql)
     THEN Result(depl,
                 start \o <<Pub(templateDataMysql, configInProgress,
                                "no need to configure data-mysql DeploymentConfig")>>,
                 Nil, 0)
     ELSE IF c.dc = "err"
     THEN MysqlFail(depl, start, "failed to find data DeploymentConfig", "lookup error", 1)
     ELSE IF c.dc = "empty"
     THEN MysqlFail(depl, start, "no data DeploymentConfig exists. Cannot continue",
                    "no data DeploymentConfig exists. Cannot continue", 1)
     ELSE IF c.job = "err"
     THEN Result(depl,
                 start \o <<Pub(templateDataMysql, "error", "error finding existing Job")>>,
                 Nil, 2)
     ELSE IF ExistingJob(c)
     THEN Result(depl,
                 start \o <<Pub(templateDataMysql, "complete",
                                "configuration job already exists")>>,
                 Nil, 2)
     ELSE IF c.svc = "err"
     THEN MysqlFail(depl, start, "failed to find data service", "lookup error", 3)
     ELSE IF c.svc = "empty"
     THEN MysqlFail(depl, start, "no service for data found. Cannot continue",
                    "no service for data found. Cannot continue", 3)
     ELSE IF ~found
     THEN MysqlFail(depl, start, "expected to find an env var: MYSQL_ROOT_PASSWORD",
                    "expected to find an env var: MYSQL_ROOT_PASSWORD", 3)
     ELSE IF ~HasLabel(depl, "rhmap/guid")
     THEN Result(depl, start, "Could not find rhmap/guid for deployment", 3)
     ELSE IF p.load = "err"
     THEN [MysqlFail(mutated, start, "failed to load job template",
                     "failed to load template data-mysql-job", 3) EXCEPT !.loads = 1]
     ELSE IF p.exec = "err"
     THEN [MysqlFail(mutated, start, "failed to execute template",
                     "failed to execute template", 3) EXCEPT !.loads = 1]
     ELSE IF p.decode = "err"
     THEN [Result(mutated,
                  start \o <<Pub(templateDataMysql, "error", "failed to Decode job")>>,
                  "failed to Decode job", 3) EXCEPT !.loads = 1]
     ELSE [Result(mutated, start, Nil, 3) EXCEPT !.loads = 1, !.spawn = TRUE]

-----------------------------------------------------------------------------
\* The job-watch goroutines: what one event of the ResultChan makes them do.

Watcher(k) == "watch " \o k

RECURSIVE MongoConditions(_)
MongoConditions(conds) ==
  IF conds = <<>> THEN <<>>
  ELSE (IF Head(conds).reason = "DeadlineExceeded" /\ Head(conds).type = "Failed"
        THEN <<Pub(Watcher(templateDataMongo), configError, "configuration job timed out")>>
        ELSE IF Head(conds).type = "Complete"
        THEN <<Pub(Watcher(templateDataMongo), configInProgress,
                   "configuration job succeeded")>>
        ELSE <<>>)
       \o MongoConditions(Tail(conds))

\* [pubs, stop]: the statuses published for event ws and whether w.Stop() is called
MongoWatch(ws) ==
  IF ws.type \in {"Added", "Modified"}
  THEN [pubs |-> (IF ws.succeeded >= 1 THEN MongoConditions(ws.conditions) ELSE <<>>)
                 \o <<Pub(Watcher(templateDataMongo), configInProgress, "job status")>>,
        stop |-> ws.succeeded >= 1]
  ELSE [pubs |-> <<Pub(Watcher(templateDataMongo), configError,
                       "data-mongo configuration job error")>>,
        stop |-> TRUE]

RECURSIVE MysqlConditions(_)
MysqlConditions(conds) ==
  IF conds = <<>> THEN <<>>
  ELSE (IF Head(conds).reason = "DeadlineExceeded"
        THEN <<Pub(Watcher(templateDataMysql), configError,
                   "configuration job failed to configure database in time")>>
        ELSE <<>>)
       \o MysqlConditions(Tail(conds))

MysqlWatch(ws) ==
  IF ws.type \in {"Added", "Modified"}
  THEN [pubs |-> (IF ws.succeeded >= 1
                  THEN <<Pub(Watcher(templateDataMysql), configInProgress,
                             "configuration job succeeded")>>
                  ELSE <<>>)
                 \o <<Pub(Watcher(templateDataMysql), configInProgress, "job status")>>
                 \o MysqlConditions(ws.conditions),
        stop |-> \/ ws.succeeded >= 1
                 \/ \E i \in 1..Len(ws.conditions) :
                      ws.conditions[i].reason = "DeadlineExceeded"]
  ELSE [pubs |-> <<Pub(Watcher(templateDataMysql), configError,
                       "data configuration job error")>>,
        stop |-> TRUE]

-----------------------------------------------------------------------------
\* What the calls can meet: the inputs of the model.

DataKinds == {templateDataMongo, templateDataMysql}
KnownKinds == {templateCacheRedis} \cup DataKinds
\* rhmap/name labels the siblings can carry: "" is a sibling without the label
ServiceNames == KnownKinds \cup {""}

SeqsUpTo(S, n) == UNION {[1..k -> S] : k \in 0..n}

\* Env of the first container of the sibling data descriptor
DataEnvs(k) ==
  IF k = templateDataMongo
  THEN {<<>>,
        <<EnvVar("MONGODB_ADMIN_PASSWORD", "adminpw")>>,
        <<EnvVar("MONGODB_REPLICA_NAME", "rs0")>>,
        <<EnvVar("MONGODB_ADMIN_PASSWORD", "adminpw"), EnvVar("MONGODB_REPLICA_NAME", "rs0")>>,
        <<EnvVar("MONGODB_REPLICA_NAME", ""), EnvVar("MONGODB_ADMIN_PASSWORD", "adminpw")>>}
  ELSE {<<>>,
        <<EnvVar("MYSQL_USER", "u")>>,
        <<EnvVar("MYSQL_USER", "u"), EnvVar("MYSQL_ROOT_PASSWORD", "rootpw")>>}

Outcomes == {"ok", "err"}

\* What FindJobByName, FindDeploymentConfigsByLabel and FindServiceByLabel answer
Clusters(k) ==
  IF k \in DataKinds
  THEN {c \in [job : {"err", "none", "found"}, dc : {"err", "empty", "found"},
               svc : {"err", "empty", "found"}, svcName : {k},
               dataEnv : DataEnvs(k)] :
          c.dc # "found" => c.dataEnv = <<>>}
  ELSE {}

NoDataService(k) ==
  [job |-> "none", dc |-> "empty", svc |-> "empty", svcName |-> k, dataEnv |-> <<>>]

\* The states of data service k to consider in a call over the siblings svcs: those of
\* the set cs when k is among the siblings, and no data service otherwise
ClustersFor(svcs, k, cs) ==
  IF \E i \in DOMAIN svcs : svcs[i] = k THEN cs ELSE {NoDataService(k)}

\* The cluster states met by the runs of the whole controller: no failing lookup
ControllerClusters(k) ==
  {c \in Clusters(k) :
     /\ c.job # "err" /\ c.dc # "err" /\ c.svc = "found"
     /\ c.dc = "found" => Len(c.dataEnv) > 0 /\ c.dataEnv[1].value # ""
     /\ c.job = "found" => c.dc = "found" /\ Len(c.dataEnv) = 2}

\* genPass's result and the iteration order of the map envFromOpts
Randoms == [pass : genPass(genPassLength), order : envFromOptsOrders]

\* The outcomes of TemplateLoader.Load, ExecuteTemplate, DecodeInto and (data-mongo)
\* CreateJobToWatch: a step is only taken when the steps before it succeeded
TemplateOutcomes(k) ==
  {t \in [load : Outcomes, exec : Outcomes, decode : Outcomes, create : Outcomes] :
     /\ t.load = "err" => t.exec = "ok"
     /\ (t.load = "err" \/ t.exec = "err") => t.decode = "ok"
     /\ (t.load = "err" \/ t.exec = "err" \/ t.decode = "err" \/ k # templateDataMongo)
          => t.create = "ok"}

Params(k) ==
  {[pass |-> random.pass, order |-> random.order, load |-> t.load, exec |-> t.exec,
    decode |-> t.decode, create |-> t.create] : t \in TemplateOutcomes(k)}

\* Env lists of the containers of the target descriptor
TargetEnvs ==
  [none |-> <<>>,
   redis |-> <<EnvVar("FH_REDIS_HOST", "localhost")>>,
   cached |-> <<EnvVar("PORT", "8001"), EnvVar("FH_REDIS_HOST", "data-cache")>>,
   twice |-> <<EnvVar("FH_REDIS_HOST", "localhost"), EnvVar("FH_REDIS_HOST", "localhost")>>,
   data |-> <<EnvVar("FH_MONGODB_CONN_URL", "mongodb://old"), EnvVar("MYSQL_USER", "old")>>,
   mysql |-> <<EnvVar("MYSQL_PASSWORD", "old"), EnvVar("PORT", "8001"),
               EnvVar("MYSQL_DATABASE", "old")>>]

TargetContainers ==
  {<<TargetEnvs.redis>>, <<TargetEnvs.none, TargetEnvs.redis>>, <<TargetEnvs.cached>>,
   <<TargetEnvs.twice, TargetEnvs.data>>,
   <<TargetEnvs.mysql, TargetEnvs.none>>}

Targets ==
  [name : {config.DeploymentName},
   labels : {[l \in {"rhmap/name", "rhmap/guid"} |->
                IF l = "rhmap/name" THEN n ELSE g] :
               n \in KnownKinds \cup {NoLabel},
               g \in {NoLabel, "", "0123456789abcdefghijklmn"}},
   containers : TargetContainers]

\* The descriptors met by the runs of the whole controller
ControllerTargets ==
  {d \in Targets : /\ d.labels["rhmap/name"] \in {NoLabel, templateDataMongo}
                   /\ d.labels["rhmap/guid"] # ""
                   /\ d.containers = <<TargetEnvs.redis>>}

JobConditions ==
  {<<>>, <<[type |-> "Complete", reason |-> ""]>>,
   <<[type |-> "Failed", reason |-> "DeadlineExceeded"]>>}

\* The events a job's ResultChan can deliver
JobEvents ==
  [type : {"Added", "Modified"}, succeeded : {0, 1}, conditions : JobConditions]
  \cup {[type |-> "Error", succeeded |-> 0, conditions |-> <<>>]}

NoCall == [kind |-> "none"]
\* The outcomes of the template steps in a call that did not get to TemplateLoader.Load
Untried == [load |-> "none", exec |-> "none", decode |-> "none", create |-> "none"]
\* A Template without the annotation "dependencies"
NoTemplate == [annotated |-> FALSE, dependencies |-> ""]
\* A watcher: its position, the number of events it received, whether it called
\* w.Stop(), and whether it received a job with Succeeded >= 1, a job with a condition
\* of reason DeadlineExceeded, an event of type Error
NoWatcher == [pc |-> "none", seen |-> 0, stopped |-> FALSE,
              succeeded |-> FALSE, deadline |-> FALSE, error |-> FALSE]

-----------------------------------------------------------------------------
\* ConfigurationFactory.Factory: the Configurer for a service, or a panic

Factory_DefaultsToCache(service) ==
  [panics |-> FALSE,
   kind |-> IF service \in KnownKinds THEN service ELSE templateCacheRedis,
   statusKey |-> StatusKey(config.InstanceID, config.Action)]

Factory(service) ==
  IF service \in KnownKinds
  THEN [panics |-> FALSE, kind |-> service,
        statusKey |-> StatusKey(config.InstanceID, config.Action)]
  ELSE [panics |-> TRUE, kind |-> "none", statusKey |-> ""]

\* c.Configure(client, deployment, namespace) of the Configurer of kind k
Configurer(k, depl, c, p) ==
  CASE k = templateCacheRedis -> CacheRedisConfigure(depl)
    [] k = templateDataMongo -> DataMongoConfigure(depl, c, p)
    [] OTHER -> DataMysqlConfigure(depl, c, p)

-----------------------------------------------------------------------------
\* EnvironmentServiceConfigController.Configure

Init ==
  /\ template = NoTemplate
  /\ dpc = "off"
  /\ templateCalls = <<>>
  /\ dret = "none"
  /\ store = <<>>
  /\ lastAction = <<>>
  /\ dependencies = <<>>
  /\ wpc = "off"
  /\ tasks = <<>>
  /\ depErrors = <<>>
  /\ now = 0
  /\ wret = "none"
  /\ pc = "start"
  /\ services \in SeqsUpTo(ServiceNames, MaxServices)
  /\ deployment \in ControllerTargets
  /\ idx = 1
  /\ configured = {}
  /\ err = Nil
  /\ errs = <<>>
  /\ wg = 0
  /\ watchers = [k \in DataKinds |-> NoWatcher]
  /\ published = <<>>
  /\ persisted = <<>>
  /\ ret = "none"
  /\ cur = NoCall
  /\ calls = <<>>
  /\ createCalls = [k \in DataKinds |-> 0]
  /\ random = [pass |-> "aB3dE6gH9jK2mN5q",
               order |-> <<"MYSQL_USER", "MYSQL_PASSWORD", "MYSQL_DATABASE">>]
  /\ \E mongo \in ClustersFor(services, templateDataMongo, ControllerClusters(templateDataMongo)),
        mysql \in ClustersFor(services, templateDataMysql, ControllerClusters(templateDataMysql)) :
       cluster = [k \in DataKinds |-> IF k = templateDataMongo THEN mongo ELSE mysql]

\* One Configurer of each kind, over every descriptor, cluster state and random draw
InitConfigurer ==
  /\ template = NoTemplate
  /\ dpc = "off"
  /\ templateCalls = <<>>
  /\ dret = "none"
  /\ store = <<>>
  /\ lastAction = <<>>
  /\ dependencies = <<>>
  /\ wpc = "off"
  /\ tasks = <<>>
  /\ depErrors = <<>>
  /\ now = 0
  /\ wret = "none"
  /\ pc = "start"
  /\ services \in {<<k>> : k \in KnownKinds} \cup {<<templateCacheRedis, templateCacheRedis>>}
  /\ deployment \in Targets
  /\ idx = 1
  /\ configured = {}
  /\ err = Nil
  /\ errs = <<>>
  /\ wg = 0
  /\ watchers = [k \in DataKinds |-> NoWatcher]
  /\ published = <<>>
  /\ persisted = <<>>
  /\ ret = "none"
  /\ cur = NoCall
  /\ calls = <<>>
  /\ createCalls = [k \in DataKinds |-> 0]
  /\ random \in Randoms
  /\ \/ random.order = <<"MYSQL_USER", "MYSQL_PASSWORD", "MYSQL_DATABASE">>
     \/ services[1] = templateDataMysql /\ random.pass = "aB3dE6gH9jK2mN5q"
  /\ \E mongo \in ClustersFor(services, templateDataMongo, Clusters(templateDataMongo)),
        mysql \in ClustersFor(services, templateDataMysql, Clusters(templateDataMysql)) :
       cluster = [k \in DataKinds |-> IF k = templateDataMongo THEN mongo ELSE mysql]

\* client.GetDeploymentConfigByName and the two early returns after it
GetDeploymentConfigByName ==
  /\ UNCHANGED <<wvars, dvars, svars>>
  /\ pc = "start"
  /\ \E r \in {"ok", "err", "nil"} :
       IF r = "ok"
       THEN /\ pc' = "find"
            /\ UNCHANGED <<err, ret>>
       ELSE /\ pc' = "done"
            /\ err' = IF r = "err" THEN "get error" ELSE Nil
            /\ ret' = IF r = "err" THEN "unexpected error retrieving DeployConfig"
                      ELSE "could not find DeploymentConfig"
  /\ UNCHANGED <<services, deployment, idx, configured, errs, wg, watchers, published,
                 persisted, cur, calls, createCalls, cluster, random>>

\* Where Configure goes after FindDeploymentConfigsByLabel answered r
AfterFind_IgnoresError(r) == "loop"

AfterFind(r) == IF r = "ok" THEN "loop" ELSE "done"

\* client.FindDeploymentConfigsByLabel, its early return, and the "found n services" status
FindDeploymentConfigsByLabel ==
  /\ UNCHANGED <<wvars, dvars, svars>>
  /\ pc = "find"
  /\ \E r \in Outcomes :
       IF r = "ok"
       THEN /\ pc' = AfterFind(r)
            /\ err' = Nil
            /\ published' = Append(published,
                                   Pub("controller", configInProgress, "found services"))
            /\ UNCHANGED ret
       ELSE /\ pc' = AfterFind(r)
            /\ err' = "find error"
            /\ published' = Append(published,
                                   Pub("controller", "error",
                                       "failed to retrieve environment Service dcs"))
            /\ ret' = "find error"
  /\ UNCHANGED <<services, deployment, idx, configured, errs, wg, watchers, persisted,
                 cur, calls, createCalls, cluster, random>>

\* `_, ok := configured[serviceName]`
AlreadyConfigured_NeverSkips(done, serviceName) == FALSE

AlreadyConfigured(done, serviceName) == serviceName \in done

\* the `continue` of the loop: the service name is already in configured
SkipConfigured ==
  /\ UNCHANGED <<wvars, dvars, svars>>
  /\ pc = "loop"
  /\ idx <= Len(services)
  /\ AlreadyConfigured(configured, services[idx])
  /\ idx' = idx + 1
  /\ UNCHANGED <<pc, services, deployment, configured, err, errs, wg, watchers, published,
                 persisted, ret, cur, calls, createCalls, cluster, random>>

\* One iteration up to the return statement of c.Configure: the "configuring" status,
\* configured[serviceName] = true, Factory, and the Configurer's wait.Add(1) and body.
InvokeConfigurer ==
  /\ UNCHANGED <<wvars, dvars, svars>>
  /\ pc = "loop"
  /\ idx <= Len(services)
  /\ ~AlreadyConfigured(configured, services[idx])
  /\ configured' = configured \cup {services[idx]}
  /\ LET serviceName == services[idx]
         configuring == Pub("controller", configInProgress, "configuring " \o serviceName)
     IN IF Factory(serviceName).panics
        THEN /\ pc' = "panicked"
             /\ published' = Append(published, configuring)
             /\ UNCHANGED <<deployment, wg, watchers, cur, createCalls>>
        ELSE \E p \in Params(serviceName) :
               LET c == IF serviceName \in DataKinds THEN cluster[serviceName]
                        ELSE NoDataService(serviceName)
                   r == Configurer(Factory(serviceName).kind, deployment, c, p)
               IN /\ pc' = "call"
                  /\ wg' = wg + 1
                  /\ deployment' = r.depl
                  /\ published' = Append(published, configuring) \o r.pubs
                  /\ watchers' = IF r.spawn
                                 THEN [watchers EXCEPT ![serviceName].pc = "spawned"]
                                 ELSE watchers
                  /\ createCalls' = IF r.createCalls > 0
                                    THEN [createCalls EXCEPT ![serviceName] = @ + r.createCalls]
                                    ELSE createCalls
                  /\ cur' = [kind |-> serviceName, err |-> r.err,
                             panicked |-> r.panicked, spawn |-> r.spawn,
                             lookups |-> r.lookups, loads |-> r.loads,
                             createCalls |-> r.createCalls,
                             outcomes |-> IF r.loads > 0
                                          THEN [load |-> p.load, exec |-> p.exec,
                                                decode |-> p.decode, create |-> p.create]
                                          ELSE Untried,
                             before |-> deployment, after |-> r.depl]
  /\ UNCHANGED <<services, idx, err, errs, persisted, ret, calls, cluster, random>>

\* The error that the loop appends to errs after a Configurer call: the call's results
\* are discarded, and the err tested is the one FindDeploymentConfigsByLabel left.
ErrAfterConfigure(callErr, outerErr) == outerErr

\* Where Configure goes when a Configurer call ends: a panic unwinds it, and an error
\* returned by the Configurer leaves it in the loop
AfterCall_AbortsOnError(callErr, panicked) ==
  IF panicked THEN "panicked" ELSE IF callErr # Nil THEN "done" ELSE "loop"

AfterCall(callErr, panicked) == IF panicked THEN "panicked" ELSE "loop"

\* `defer wait.Done()` of a Configurer or of a watcher goroutine: the counter after it
WaitGroupDone_Skipped(counter) == counter

WaitGroupDone(counter) == counter - 1

\* The Configurer's deferred wait.Done(), its return (or its panic going up through
\* Configure), and the `if err != nil` that follows the call.
ConfigurerReturn ==
  /\ UNCHANGED <<wvars, dvars, svars>>
  /\ pc = "call"
  /\ wg' = WaitGroupDone(wg)
  /\ calls' = Append(calls, cur)
  /\ cur' = NoCall
  /\ pc' = AfterCall(cur.err, cur.panicked)
  /\ IF cur.panicked
     THEN UNCHANGED <<idx, errs>>
     ELSE /\ idx' = idx + 1
          /\ errs' = IF ErrAfterConfigure(cur.err, err) # Nil
                     THEN Append(errs, ErrAfterConfigure(cur.err, err))
                     ELSE errs
  /\ UNCHANGED <<services, deployment, configured, err, watchers, published, persisted,
                 ret, createCalls, cluster, random>>

\* waitGroup.Wait() after the loop: returns once the counter is zero
WaitGroupWait ==
  /\ UNCHANGED <<wvars, dvars, svars>>
  /\ pc = "loop"
  /\ idx > Len(services)
  /\ wg = 0
  /\ pc' = "update"
  /\ UNCHANGED <<services, deployment, idx, configured, err, errs, wg, watchers, published,
                 persisted, ret, cur, calls, createCalls, cluster, random>>

\* The terminal status and the return value of Configure, given the outcome r of the
\* update and the errors collected
Terminal_IgnoresUpdateError(r, es) ==
  IF Len(es) > 0
  THEN [pub |-> Pub("controller", configError, "some configuration jobs failed"),
        ret |-> "some configuration jobs failed"]
  ELSE [pub |-> Pub("controller", configComplete, "service configuration complete"),
        ret |-> Nil]

Terminal(r, es) ==
  IF r = "err"
  THEN [pub |-> Pub("controller", configError,
                    "failed to update DeployConfig after configuring it"),
        ret |-> "failed to update deployment after configuring it"]
  ELSE IF Len(es) > 0
  THEN [pub |-> Pub("controller", configError, "some configuration jobs failed"),
        ret |-> "some configuration jobs failed"]
  ELSE [pub |-> Pub("controller", configComplete, "service configuration complete"),
        ret |-> Nil]

\* client.UpdateDeployConfigInNamespace and the terminal status
UpdateDeployConfigInNamespace ==
  /\ UNCHANGED <<wvars, dvars, svars>>
  /\ pc = "update"
  /\ pc' = "done"
  /\ \E r \in Outcomes :
       /\ persisted' = Append(persisted, [depl |-> deployment, result |-> r])
       /\ published' = Append(published, Terminal(r, errs).pub)
       /\ ret' = Terminal(r, errs).ret
  /\ UNCHANGED <<services, deployment, idx, configured, err, errs, wg, watchers, cur,
                 calls, createCalls, cluster, random>>

-----------------------------------------------------------------------------
\* The goroutines started by the data Configurers

\* d.wait.Add(1) at the start of the goroutine; client.CreateJobToWatch for data-mysql
WatcherStart(k) ==
  /\ UNCHANGED <<wvars, dvars, svars>>
  /\ watchers[k].pc = "spawned"
  /\ wg' = wg + 1
  /\ IF k = templateDataMysql
     THEN \E r \in Outcomes :
            /\ createCalls' = [createCalls EXCEPT ![k] = @ + 1]
            /\ IF r = "err"
               THEN /\ watchers' = [watchers EXCEPT ![k].pc = "returning"]
                    /\ published' = Append(published,
                                           Pub(Watcher(k), configError,
                                               "failed to CreateJobToWatch"))
               ELSE /\ watchers' = [watchers EXCEPT ![k].pc = "watching"]
                    /\ UNCHANGED published
     ELSE /\ watchers' = [watchers EXCEPT ![k].pc = "watching"]
          /\ UNCHANGED <<published, createCalls>>
  /\ UNCHANGED <<pc, services, deployment, idx, configured, err, errs, persisted, ret,
                 cur, calls, cluster, random>>

\* The descriptor after a watcher goroutine handled the event ws: the goroutine reads
\* the job of the event and publishes statuses, and writes nothing to the descriptor
WatcherDescriptor_RecordsJob(depl, ws) ==
  [depl EXCEPT !.containers =
     [ci \in DOMAIN depl.containers |-> Upsert(depl.containers[ci], "JOB_EVENT", ws.type)]]

WatcherDescriptor(depl, ws) == depl

\* one event received from the ResultChan
WatcherEvent(k) ==
  /\ UNCHANGED <<wvars, dvars, svars>>
  /\ watchers[k].pc = "watching"
  /\ ~watchers[k].stopped
  /\ watchers[k].seen < MaxEvents
  /\ \E ws \in JobEvents :
       LET w == IF k = templateDataMongo THEN MongoWatch(ws) ELSE MysqlWatch(ws)
       IN /\ published' = published \o w.pubs
          /\ deployment' = WatcherDescriptor(deployment, ws)
          /\ watchers' = [watchers EXCEPT
                            ![k].seen = @ + 1,
                            ![k].stopped = w.stop,
                            ![k].succeeded = @ \/ ws.succeeded >= 1,
                            ![k].deadline = @ \/ \E i \in DOMAIN ws.conditions :
                                                   ws.conditions[i].reason = "DeadlineExceeded",
                            ![k].error = @ \/ ws.type = "Error"]
  /\ UNCHANGED <<pc, services, idx, configured, err, errs, wg, persisted, ret,
                 cur, calls, createCalls, cluster, random>>

\* the ResultChan is closed (after w.Stop(), or by the server), or the goroutine
\* returns early: the deferred d.wait.Done()
WatcherExit(k) ==
  /\ UNCHANGED <<wvars, dvars, svars>>
  /\ watchers[k].pc \in {"watching", "returning"}
  /\ watchers' = [watchers EXCEPT ![k].pc = "done"]
  /\ wg' = WaitGroupDone(wg)
  /\ UNCHANGED <<pc, services, deployment, idx, configured, err, errs, published,
                 persisted, ret, cur, calls, createCalls, cluster, random>>

-----------------------------------------------------------------------------
\* waitForDependencies

timeout == 300
SecondsPerMinute == 60

\* time.Now().UTC().Second(): the second within the current minute
Second(t) == t % SecondsPerMinute

\* Seconds one GET of a watch endpoint can take
PollSeconds == {25, 150}

\* What the watch endpoint of a dependency answers: a body that always holds the
\* success marker, one that never does, one that may
Bodies == {"success", "never", "either"}

InitWait ==
  /\ template = NoTemplate
  /\ dpc = "off"
  /\ templateCalls = <<>>
  /\ dret = "none"
  /\ store = <<>>
  /\ lastAction = <<>>
  /\ pc = "off"
  /\ services = <<>>
  /\ deployment = CHOOSE d \in ControllerTargets : TRUE
  /\ idx = 1
  /\ configured = {}
  /\ err = Nil
  /\ errs = <<>>
  /\ wg = 0
  /\ watchers = [k \in DataKinds |-> NoWatcher]
  /\ published = <<>>
  /\ persisted = <<>>
  /\ ret = "none"
  /\ cur = NoCall
  /\ calls = <<>>
  /\ createCalls = [k \in DataKinds |-> 0]
  /\ cluster = [k \in DataKinds |-> NoDataService(k)]
  /\ random = [pass |-> "aB3dE6gH9jK2mN5q",
               order |-> <<"MYSQL_USER", "MYSQL_PASSWORD", "MYSQL_DATABASE">>]
  /\ dependencies \in UNION {[1..n -> Bodies] : n \in 0..MaxDependencies}
  /\ wpc = "start"
  /\ tasks = <<>>
  /\ depErrors = <<>>
  /\ now \in {0, 50}
  /\ wret = "none"

DependencyName(i) == "dep" \o ToString(i)

\* the loop that starts one goroutine per dependency, dependencyGroup.Add(1) before each
StartPolling ==
  /\ UNCHANGED <<cvars, dvars, svars>>
  /\ wpc = "start"
  /\ wpc' = "wait"
  /\ tasks' = [i \in DOMAIN dependencies |->
                [pc |-> "spawned", start |-> 0, began |-> 0, overBudget |-> FALSE]]
  /\ UNCHANGED <<dependencies, depErrors, now, wret>>

\* `start := time.Now().UTC().Second()` at the head of a goroutine
TaskBegin(i) ==
  /\ UNCHANGED <<cvars, dvars, svars>>
  /\ wpc = "wait"
  /\ tasks[i].pc = "spawned"
  /\ tasks' = [tasks EXCEPT ![i].pc = "polling", ![i].start = Second(now), ![i].began = now]
  /\ UNCHANGED <<dependencies, wpc, depErrors, now, wret>>

\* `time.Now().UTC().Second()-start > timeout`
TimedOut(t, start) == Second(t) - start > timeout

\* one iteration of the polling loop: the GET, the test for the success marker, the
\* test for the timeout
TaskPoll(i) ==
  /\ UNCHANGED <<cvars, dvars, svars>>
  /\ wpc = "wait"
  /\ tasks[i].pc = "polling"
  /\ \E d \in PollSeconds, outcome \in {"ok", "err"}, marker \in BOOLEAN :
       /\ now + d <= MaxClock
       /\ now' = now + d
       /\ dependencies[i] = "success" => marker
       /\ dependencies[i] = "never" => ~marker
       /\ IF outcome = "err"
          THEN \* panic(err): the process ends
               /\ wpc' = "panicked"
               /\ UNCHANGED <<tasks, depErrors>>
          ELSE IF marker
          THEN /\ tasks' = [tasks EXCEPT ![i].pc = "done"]
               /\ UNCHANGED <<wpc, depErrors>>
          ELSE /\ tasks' = [tasks EXCEPT ![i].overBudget = (now' - tasks[i].began > timeout)]
               /\ depErrors' = IF TimedOut(now', tasks[i].start)
                                THEN Append(depErrors, "Failed to deploy dependency: "
                                                       \o DependencyName(i))
                                ELSE depErrors
               /\ UNCHANGED wpc
  /\ UNCHANGED <<dependencies, wret>>

\* dependencyGroup.Wait() returns, and the error is built from depErrors
WaitReturn ==
  /\ UNCHANGED <<cvars, dvars, svars>>
  /\ wpc = "wait"
  /\ \A i \in DOMAIN tasks : tasks[i].pc = "done"
  /\ wpc' = "returned"
  /\ wret' = IF Len(depErrors) > 0 THEN depErrors ELSE <<>>
  /\ UNCHANGED <<dependencies, tasks, depErrors, now>>

NextWait ==
  \/ StartPolling
  \/ \E i \in DOMAIN tasks : TaskBegin(i)
  \/ \E i \in DOMAIN tasks : TaskPoll(i)
  \/ WaitReturn

SpecWait == InitWait /\ [][NextWait]_vars

-----------------------------------------------------------------------------
\* deployDependencyServices

\* strings.Split(s, sep) for a separator of one character
RECURSIVE Split(_, _)
Split(s, sep) ==
  IF \E i \in 1..Len(s) : SubSeq(s, i, i) = sep
  THEN LET i == CHOOSE i \in 1..Len(s) :
                  /\ SubSeq(s, i, i) = sep
                  /\ \A j \in 1..(i - 1) : SubSeq(s, j, j) # sep
       IN <<SubSeq(s, 1, i - 1)>> \o Split(SubSeq(s, i + 1, Len(s)), sep)
  ELSE <<s>>

\* Names of dependency templates, and what separates them in an annotation
TemplateNames == {"redis", "mongo"}
Separators == {" ", "  "}

\* The values of the annotation "dependencies": no name, or up to MaxNames names
RECURSIVE AnnotationValues(_)
AnnotationValues(n) ==
  IF n = 0 THEN {""}
  ELSE IF n = 1 THEN TemplateNames
  ELSE {v \o sep \o name : v \in AnnotationValues(n - 1) \ {""}, sep \in Separators,
                           name \in TemplateNames}
       \cup AnnotationValues(n - 1)

\* The handle Deployer.Template returns for the template dep
Dispatched(dep) == [DeploymentName |-> dep, WatchURL |-> "watch/" \o dep]

InitDeploy ==
  /\ pc = "off"
  /\ services = <<>>
  /\ deployment = CHOOSE d \in ControllerTargets : TRUE
  /\ idx = 1
  /\ configured = {}
  /\ err = Nil
  /\ errs = <<>>
  /\ wg = 0
  /\ watchers = [k \in DataKinds |-> NoWatcher]
  /\ published = <<>>
  /\ persisted = <<>>
  /\ ret = "none"
  /\ cur = NoCall
  /\ calls = <<>>
  /\ createCalls = [k \in DataKinds |-> 0]
  /\ cluster = [k \in DataKinds |-> NoDataService(k)]
  /\ random = [pass |-> "aB3dE6gH9jK2mN5q",
               order |-> <<"MYSQL_USER", "MYSQL_PASSWORD", "MYSQL_DATABASE">>]
  /\ dependencies = <<>>
  /\ wpc = "off"
  /\ tasks = <<>>
  /\ depErrors = <<>>
  /\ now = 0
  /\ wret = "none"
  /\ store = <<>>
  /\ lastAction = <<>>
  /\ template \in {NoTemplate}
                   \cup [annotated : {TRUE}, dependencies : AnnotationValues(MaxNames)]
  /\ dpc = "start"
  /\ templateCalls = <<>>
  /\ dret = "none"

\* `if _, ok := template.Annotations["dependencies"]; !ok { return nil, nil }` and
\* `dependencies := []*Dispatched{}`
AnnotationLookup ==
  /\ dpc = "start"
  /\ IF ~template.annotated
     THEN /\ dpc' = "returned"
          /\ dret' = [dependencies |-> <<>>, err |-> Nil]
     ELSE /\ dpc' = "range"
          /\ UNCHANGED dret
  /\ UNCHANGED <<template, templateCalls, dependencies>>
  /\ UNCHANGED <<cvars, wpc, tasks, depErrors, now, wret, svars>>

\* one iteration of the range loop: c.Template for the next name, the return on its
\* error, the append of its handle
DeployerTemplate ==
  /\ dpc = "range"
  /\ Len(templateCalls) < Len(Split(template.dependencies, " "))
  /\ LET dep == Split(template.dependencies, " ")[Len(templateCalls) + 1]
     IN \E r \in Outcomes :
          /\ templateCalls' = Append(templateCalls, [name |-> dep, result |-> r])
          /\ IF r = "err"
             THEN /\ dpc' = "returned"
                  /\ dret' = [dependencies |-> dependencies, err |-> "template error"]
                  /\ UNCHANGED dependencies
             ELSE /\ dependencies' = Append(dependencies, Dispatched(dep))
                  /\ UNCHANGED <<dpc, dret>>
  /\ UNCHANGED template
  /\ UNCHANGED <<cvars, wpc, tasks, depErrors, now, wret, svars>>

\* `return dependencies, nil` after the loop
DeployReturn ==
  /\ dpc = "range"
  /\ Len(templateCalls) = Len(Split(template.dependencies, " "))
  /\ dpc' = "returned"
  /\ dret' = [dependencies |-> dependencies, err |-> Nil]
  /\ UNCHANGED <<template, templateCalls, dependencies>>
  /\ UNCHANGED <<cvars, wpc, tasks, depErrors, now, wret, svars>>

NextDeploy ==
  \/ AnnotationLookup
  \/ DeployerTemplate
  \/ DeployReturn

SpecDeploy == InitDeploy /\ [][NextDeploy]_vars

-----------------------------------------------------------------------------
\* The status keys: Configure publishing, LastAction retrieving

\* Instance IDs and operations of the requests
InstanceIDs == {"app1", "app1:noplan", "app1:provision"}
Operations == {"provision", "update", "provision:update"}
PlanIDs == {"", "plan1"}

\* `strings.Join([]string{instance, planID, operation}, ":")` after the default of planID
LastActionKey(instance, planID, operation) ==
  instance \o ":" \o (IF planID = "" THEN "noplan" ELSE planID) \o ":" \o operation

\* StatusRetriever.Get: the status last published under key, or ErrNotExist
Get(key) ==
  IF \E j \in DOMAIN store : store[j].key = key
  THEN [found |-> TRUE,
        status |-> store[CHOOSE j \in DOMAIN store :
                           /\ store[j].key = key
                           /\ \A i \in DOMAIN store : store[i].key = key => i <= j].status]
  ELSE [found |-> FALSE, status |-> "ErrNotExist"]

InitStatus ==
  /\ pc = "off"
  /\ services = <<>>
  /\ deployment = CHOOSE d \in ControllerTargets : TRUE
  /\ idx = 1
  /\ configured = {}
  /\ err = Nil
  /\ errs = <<>>
  /\ wg = 0
  /\ watchers = [k \in DataKinds |-> NoWatcher]
  /\ published = <<>>
  /\ persisted = <<>>
  /\ ret = "none"
  /\ cur = NoCall
  /\ calls = <<>>
  /\ createCalls = [k \in DataKinds |-> 0]
  /\ cluster = [k \in DataKinds |-> NoDataService(k)]
  /\ random = [pass |-> "aB3dE6gH9jK2mN5q",
               order |-> <<"MYSQL_USER", "MYSQL_PASSWORD", "MYSQL_DATABASE">>]
  /\ dependencies = <<>>
  /\ wpc = "off"
  /\ tasks = <<>>
  /\ depErrors = <<>>
  /\ now = 0
  /\ wret = "none"
  /\ template = NoTemplate
  /\ dpc = "off"
  /\ templateCalls = <<>>
  /\ dret = "none"
  /\ store = <<>>
  /\ lastAction = <<>>

\* A Configure call for the Configuration {InstanceID, Action} publishes a status under
\* `statusKey := StatusKey(config.InstanceID, config.Action)`
Publish ==
  /\ Len(store) < MaxPublished
  /\ \E instanceID \in InstanceIDs, action \in Operations,
        status \in {configInProgress, configComplete} :
       store' = Append(store, [key |-> StatusKey(instanceID, action), status |-> status,
                               InstanceID |-> instanceID, Action |-> action])
  /\ UNCHANGED <<lastAction, cvars, wvars, dvars>>

\* LastActionHandler.LastAction for one request: the key it derives and what Get answers
LastAction ==
  /\ \E instance \in InstanceIDs, planID \in PlanIDs, operation \in Operations :
       LET statusKey == LastActionKey(instance, planID, operation)
       IN lastAction' = <<[instance |-> instance, planID |-> planID,
                           operation |-> operation, statusKey |-> statusKey,
                           found |-> Get(statusKey).found,
                           status |-> Get(statusKey).status]>>
  /\ UNCHANGED <<store, cvars, wvars, dvars>>

NextStatus ==
  \/ Publish
  \/ LastAction

SpecStatus == InitStatus /\ [][NextStatus]_vars

-----------------------------------------------------------------------------
Next ==
  \/ GetDeploymentConfigByName
  \/ FindDeploymentConfigsByLabel
  \/ SkipConfigured
  \/ InvokeConfigurer
  \/ ConfigurerReturn
  \/ WaitGroupWait
  \/ UpdateDeployConfigInNamespace
  \/ \E k \in DataKinds : WatcherStart(k)
  \/ \E k \in DataKinds : WatcherEvent(k)
  \/ \E k \in DataKinds : WatcherExit(k)

Spec == Init /\ [][Next]_vars

SpecConfigurer == InitConfigurer /\ [][Next]_vars

\* The ResultChan is closed once the watcher called w.Stop(), and the goroutine that
\* failed to create its job returns
StoppedExit(k) ==
  /\ watchers[k].stopped \/ watchers[k].pc = "returning"
  /\ WatcherExit(k)

\* The runs in which the goroutine of Configure and the watcher goroutines keep being
\* scheduled, every call of the cluster API returns, and a stopped watch closes its
\* channel. Nothing makes a job deliver an event, or a watch that was not stopped close.
Fairness ==
  /\ WF_vars(GetDeploymentConfigByName)
  /\ WF_vars(FindDeploymentConfigsByLabel)
  /\ WF_vars(SkipConfigured)
  /\ WF_vars(InvokeConfigurer)
  /\ WF_vars(ConfigurerReturn)
  /\ WF_vars(WaitGroupWait)
  /\ WF_vars(UpdateDeployConfigInNamespace)
  /\ \A k \in DataKinds : WF_vars(WatcherStart(k)) /\ WF_vars(StoppedExit(k))

SpecLive == Init /\ [][Next]_vars /\ Fairness

-----------------------------------------------------------------------------
\* Properties of Configure

Range(f) == {f[i] : i \in DOMAIN f}

\* Number of Configurer calls made for service kind k, ended or in progress
Invocations(k) ==
  Cardinality({i \in DOMAIN calls : calls[i].kind = k}) + (IF cur.kind = k THEN 1 ELSE 0)

\* The range loop over services has run to its end
LoopEnded == pc \in {"loop", "update", "done"} /\ idx > Len(services)

\* FindDeploymentConfigsByLabel succeeded (and so did GetDeploymentConfigByName)
DiscoverySucceeded ==
  \E j \in DOMAIN published :
    published[j] = Pub("controller", configInProgress, "found services")

FailedCalls == {i \in DOMAIN calls : calls[i].err # Nil}

ControllerPublished(status) ==
  \E j \in DOMAIN published :
    published[j].by = "controller" /\ published[j].status = status

\* C1: within one Configure call the Configurer of a service kind is never invoked more
\* than once, however many siblings carry the kind's label, and once the loop over the
\* siblings has ended it has been invoked exactly once for each kind in the list.
C1_EachKindConfiguredOnce ==
  /\ \A k \in KnownKinds : Invocations(k) <= 1
  /\ LoopEnded =>
       \A k \in KnownKinds : Invocations(k) = (IF k \in Range(services) THEN 1 ELSE 0)

\* C1 witness: the call has returned for a list whose two siblings carry the same kind
C1_Witness ==
  /\ pc = "done"
  /\ Len(services) = 2
  /\ services[1] = services[2]
  /\ services[1] \in DataKinds
  /\ Invocations(services[1]) = 1

\* C2: a Configurer returning an error does not end Configure: when Configure
\* returns after the discovery succeeded, the Configurer of every discovered kind has
\* been invoked and the update has been attempted, whichever calls failed; and Configure
\* is only ever abandoned by a panic, never by a returned error.
C2_FailureDoesNotStopTheOthers ==
  /\ (pc = "done" /\ DiscoverySucceeded) =>
       /\ \A k \in KnownKinds \cap Range(services) : Invocations(k) = 1
       /\ Len(persisted) = 1
  /\ pc = "panicked" =>
       \/ \E i \in DOMAIN calls : calls[i].panicked
       \/ \E n \in configured : n \notin KnownKinds

\* C2 witness: the first of two Configurers failed, the second ran, the update was made
C2_Witness ==
  /\ pc = "done"
  /\ Len(calls) = 2
  /\ calls[1].err # Nil
  /\ Len(persisted) = 1

\* C3 (as claimed): when a Configurer returned an error, Configure publishes a failed
\* status and returns an error, which holds the message of every failed Configurer
\* unless it is the error of a failed update; it returns nil and publishes succeeded
\* only when no Configurer failed and the update succeeded.
C3_FailuresAreReported ==
  pc = "done" /\ Len(persisted) = 1 =>
    /\ FailedCalls # {} =>
         /\ ret # Nil
         /\ ControllerPublished(configError)
         /\ persisted[1].result = "ok" => \A i \in FailedCalls : calls[i].err \in Range(errs)
    /\ (ret = Nil \/ ControllerPublished(configComplete)) =>
         /\ FailedCalls = {}
         /\ persisted[1].result = "ok"

\* C4 (as claimed): Configure is not past its wait-group barrier while a job-watch
\* goroutine spawned during the call is unfinished.
C4_BarrierWaitsForWatchers ==
  pc \in {"update", "done"} => \A k \in DataKinds : watchers[k].pc \in {"none", "done"}

\* C5: the descriptor is handed to UpdateDeployConfigInNamespace at most once, only
\* when the loop has ended and no Configurer call is in progress, and when Configure has
\* returned it has been handed over once if GetDeploymentConfigByName and
\* FindDeploymentConfigsByLabel succeeded and not at all otherwise.
C5_PersistedOnceAfterTheCalls ==
  /\ Len(persisted) <= 1
  /\ Len(persisted) = 1 => LoopEnded /\ cur = NoCall /\ DiscoverySucceeded
  /\ pc = "done" => (Len(persisted) = 1 <=> DiscoverySucceeded)

\* C5 witness: Configure returned after two Configurer calls and one update
C5_Witness ==
  /\ pc = "done"
  /\ Len(calls) = 2
  /\ Len(persisted) = 1

\* C6: when the update fails, Configure returns an error and publishes a failed status,
\* and no succeeded status is published in the call, whatever the Configurers returned.
C6_UpdateFailureIsReported ==
  (pc = "done" /\ Len(persisted) = 1 /\ persisted[1].result = "err") =>
    /\ ret = "failed to update deployment after configuring it"
    /\ \E j \in DOMAIN published :
         published[j] = Pub("controller", configError,
                            "failed to update DeployConfig after configuring it")
    /\ \A j \in DOMAIN published : published[j].status # configComplete

\* C6 witness: the update failed after a call in which every Configurer succeeded
C6_Witness ==
  /\ pc = "done"
  /\ Len(persisted) = 1
  /\ persisted[1].result = "err"
  /\ Len(calls) >= 1
  /\ FailedCalls = {}

-----------------------------------------------------------------------------
\* Properties of the Configurer strategies

\* The Configurer calls made so far, the one in progress included
AllCalls == Range(calls) \cup (IF cur = NoCall THEN {} ELSE {cur})

StatusesBy(k) == {published[j].status : j \in {i \in DOMAIN published : published[i].by = k}}

\* Every lookup of the cluster finds what a data strategy needs, and no job exists yet
ReadyToProvision(k) ==
  /\ cluster[k].job = "none"
  /\ cluster[k].dc = "found"
  /\ cluster[k].svc = "found"
  /\ Len(cluster[k].dataEnv) = 2

\* C7: a strategy called on the descriptor that carries its own service kind in
\* rhmap/name leaves the descriptor as it was and returns no error, and it makes no
\* cluster lookup, no template load and no job submission, and starts no goroutine.
C7_OwnDescriptorIsLeftAlone ==
  \A call \in AllCalls :
    call.before.labels["rhmap/name"] = call.kind =>
      /\ call.after = call.before
      /\ deployment = call.before
      /\ call.err = Nil
      /\ ~call.panicked
      /\ call.lookups = 0
      /\ call.loads = 0
      /\ call.createCalls = 0
      /\ ~call.spawn
      /\ call.kind \in DataKinds =>
           createCalls[call.kind] = 0 /\ watchers[call.kind].pc = "none"

\* C7 witness: Configure returned after the data-mysql strategy was called on the
\* data-mysql descriptor itself, in a cluster where it could have provisioned
C7_Witness ==
  /\ pc = "done"
  /\ Len(calls) = 1
  /\ calls[1].kind = templateDataMysql
  /\ calls[1].before.labels["rhmap/name"] = templateDataMysql
  /\ calls[1].before.labels["rhmap/guid"] # NoLabel
  /\ ReadyToProvision(templateDataMysql)

AdminCredential(k) ==
  IF k = templateDataMongo THEN "MONGODB_ADMIN_PASSWORD" ELSE "MYSQL_ROOT_PASSWORD"

\* The sibling data descriptor of kind k exists and its first container has no
\* admin-credential entry
AdminCredentialMissing(k) ==
  /\ cluster[k].dc = "found"
  /\ \A i \in DOMAIN cluster[k].dataEnv : cluster[k].dataEnv[i].name # AdminCredential(k)

\* The call gets as far as reading the sibling descriptor's env
ReadsSiblingEnv(call) ==
  /\ call.before.labels["rhmap/name"] # call.kind
  /\ cluster[call.kind].job = "none"
  /\ cluster[call.kind].dc = "found"
  /\ cluster[call.kind].svc = "found"

\* C8: when the first container of the sibling data descriptor has no admin-credential
\* entry, CreateJobToWatch is never called for that service and no watcher goroutine is
\* started, and the data strategy that reads the sibling's env returns an error and
\* publishes a failed status.
C8_NoJobWithoutAdminCredential ==
  \A k \in DataKinds :
    AdminCredentialMissing(k) =>
      /\ createCalls[k] = 0
      /\ watchers[k].pc = "none"
      /\ \A call \in AllCalls :
           (call.kind = k /\ ReadsSiblingEnv(call)) =>
             /\ call.err # Nil
             /\ ~call.panicked
             /\ ~call.spawn
             /\ configError \in StatusesBy(k)

\* C8 witness: Configure returned after a data strategy read a sibling env that holds
\* entries but no admin credential
C8_Witness ==
  \E k \in DataKinds :
    /\ pc = "done"
    /\ Len(calls) = 1
    /\ calls[1].kind = k
    /\ ReadsSiblingEnv(calls[1])
    /\ AdminCredentialMissing(k)
    /\ Len(cluster[k].dataEnv) > 0

\* What a data strategy does when it finds the job already there
NoNewJobAndSuccess(call) ==
  /\ call.err = Nil
  /\ ~call.panicked
  /\ ~call.spawn
  /\ createCalls[call.kind] = 0
  /\ watchers[call.kind].pc = "none"
  /\ call.after = call.before
  /\ StatusesBy(call.kind) \subseteq {configInProgress, "complete"}

\* C9 (as claimed): when the job <deployment name>-dataconfig-job exists, a data
\* strategy submits no job, returns no error and reports no failure, whatever the
\* state of the sibling data descriptor and service.
C9_ExistingJobIsSuccess ==
  \A call \in AllCalls :
    (call.kind \in DataKinds /\ cluster[call.kind].job = "found") => NoNewJobAndSuccess(call)

\* C9 (amended): the same, for data-mongo in every state of the sibling descriptor and
\* service, and for data-mysql when the sibling data descriptor is found.
C9_ExistingJobIsSuccessOnceSiblingFound ==
  \A call \in AllCalls :
    ( /\ call.kind \in DataKinds
      /\ cluster[call.kind].job = "found"
      /\ call.kind = templateDataMysql => cluster[call.kind].dc = "found" ) =>
    NoNewJobAndSuccess(call)

\* C9 witness: data-mysql found its sibling descriptor and the job, with no service
C9_Witness ==
  /\ pc = "done"
  /\ Len(calls) = 1
  /\ calls[1].kind = templateDataMysql
  /\ calls[1].before.labels["rhmap/name"] # templateDataMysql
  /\ cluster[templateDataMysql].job = "found"
  /\ cluster[templateDataMysql].dc = "found"
  /\ cluster[templateDataMysql].svc = "empty"
  /\ "complete" \in StatusesBy(templateDataMysql)

-----------------------------------------------------------------------------
\* Properties of waitForDependencies

\* C10 (as claimed): a polling goroutine ends when a body holds the success marker or
\* once more than the budget of 300 seconds has passed since the start of its loop: none
\* is still polling after an iteration whose timeout test ran past the budget.
C10_PollingEndsAfterBudget ==
  \A i \in DOMAIN tasks : tasks[i].overBudget => tasks[i].pc = "done"

\* The entries of the returned error that name dependency i
NamedIn(e, i) ==
  {j \in DOMAIN e : e[j] = "Failed to deploy dependency: " \o DependencyName(i)}

\* C11 (as claimed): when waitForDependencies returns, its error names each dependency
\* that ran past the budget of 300 seconds exactly once and names no other dependency,
\* so that it returns nil exactly when no dependency timed out.
C11_ErrorNamesTheTimedOut ==
  wpc = "returned" =>
    /\ \A i \in DOMAIN tasks :
         Cardinality(NamedIn(wret, i)) = (IF tasks[i].overBudget THEN 1 ELSE 0)
    /\ (wret = <<>>) <=> (\A i \in DOMAIN tasks : ~tasks[i].overBudget)

-----------------------------------------------------------------------------
\* Properties of deployDependencyServices

\* The names a whitespace-separated list declares: its fields that are not empty
DeclaredNames(t) ==
  IF t.annotated THEN SelectSeq(Split(t.dependencies, " "), LAMBDA n : n # "") ELSE <<>>

\* C12 (as claimed): the names declared by the annotation are dispatched in their
\* order and no name is dispatched after a failed dispatch; the call returns the error
\* of the first failure with the handles of the names dispatched before it, or no error
\* and one handle per declared name; without the annotation it dispatches nothing.
C12_DispatchInOrderUntilFailure ==
  LET names == DeclaredNames(template)
      n == Len(templateCalls)
  IN /\ n <= Len(names)
     /\ \A j \in 1..n : templateCalls[j].name = names[j]
     /\ \A j \in 1..(n - 1) : templateCalls[j].result = "ok"
     /\ dpc = "returned" =>
          IF n > 0 /\ templateCalls[n].result = "err"
          THEN /\ dret.err # Nil
               /\ dret.dependencies = [j \in 1..(n - 1) |-> Dispatched(names[j])]
          ELSE /\ dret.err = Nil
               /\ n = Len(names)
               /\ dret.dependencies = [j \in 1..n |-> Dispatched(names[j])]

-----------------------------------------------------------------------------
\* Properties of the job-watch goroutines

\* C13 (as claimed): a job-watcher that has received a terminal event (a job with a
\* completion count of 1 or more, a job with a DeadlineExceeded condition whatever its
\* completion count, or an Error event) has stopped its watch.
C13_WatcherStopsOnTerminalEvent ==
  \A k \in DataKinds :
    (watchers[k].succeeded \/ watchers[k].deadline \/ watchers[k].error) =>
      watchers[k].stopped

-----------------------------------------------------------------------------
\* Error surfaces of the database strategies

\* The call of a data strategy, on a descriptor other than its own, met one of: sibling
\* data descriptor missing, sibling service missing, admin credential missing, template
\* load, render or decode failure, CreateJobToWatch failure
MetListedFailure(call) ==
  LET k == call.kind
      c == cluster[k]
  IN /\ k \in DataKinds
     /\ call.before.labels["rhmap/name"] # k
     /\ \/ c.dc # "found" /\ (k = templateDataMongo => c.job = "none")
        \/ c.dc = "found" /\ c.job = "none" /\ c.svc # "found"
        \/ c.dc = "found" /\ c.job = "none" /\ c.svc = "found"
             /\ \A i \in DOMAIN c.dataEnv : c.dataEnv[i].name # AdminCredential(k)
        \/ "err" \in {call.outcomes.load, call.outcomes.exec, call.outcomes.decode,
                      call.outcomes.create}
        \/ k = templateDataMysql /\ watchers[k].pc = "returning"

\* C14 (as claimed): a data strategy that meets one of the listed failures publishes a
\* failed status under the call's key and returns an error, and does not panic.
C14_ListedFailuresAreFailedAndReturned ==
  \A call \in AllCalls :
    MetListedFailure(call) =>
      /\ call.err # Nil
      /\ ~call.panicked
      /\ \E j \in DOMAIN published :
           /\ published[j].by \in {call.kind, Watcher(call.kind)}
           /\ published[j].status = configError
           /\ published[j].key = "app1:provision"

-----------------------------------------------------------------------------
\* Properties of the data-mongo strategy

\* The connection URL the data-mongo strategy is to write on descriptor d
ExpectedMongoURL(d) ==
  LET db == IF d.labels["rhmap/guid"] # NoLabel THEN d.labels["rhmap/guid"] ELSE d.name
      env == cluster[templateDataMongo].dataEnv
      named == {i \in DOMAIN env : env[i].name = "MONGODB_REPLICA_NAME" /\ env[i].value # ""}
  IN "mongodb://" \o db \o ":" \o random.pass \o "@" \o cluster[templateDataMongo].svcName
       \o ":27017/" \o db
       \o (IF named = {} THEN ""
           ELSE "?replicaSet=" \o env[CHOOSE i \in named : \A j \in named : j <= i].value)

\* C15 (as claimed): with no job yet, the sibling data descriptor and service present
\* and MONGODB_ADMIN_PASSWORD in its env (with or without MONGODB_REPLICA_NAME), and the
\* template steps succeeding, the data-mongo strategy called on another descriptor does
\* not panic, leaves exactly one FH_MONGODB_CONN_URL entry with the expected URL and a
\* 16-character password on every container, and submits exactly one job.
C15_MongoWritesURLAndSubmitsJob ==
  \A call \in AllCalls :
    ( /\ call.kind = templateDataMongo
      /\ call.before.labels["rhmap/name"] # templateDataMongo
      /\ cluster[templateDataMongo].job = "none"
      /\ cluster[templateDataMongo].dc = "found"
      /\ cluster[templateDataMongo].svc = "found"
      /\ \E i \in DOMAIN cluster[templateDataMongo].dataEnv :
           cluster[templateDataMongo].dataEnv[i].name = "MONGODB_ADMIN_PASSWORD"
      /\ "err" \notin {call.outcomes.load, call.outcomes.exec, call.outcomes.decode,
                        call.outcomes.create} ) =>
    /\ ~call.panicked
    /\ call.err = Nil
    /\ Len(random.pass) = 16
    /\ \A ci \in DOMAIN call.after.containers :
         LET env == call.after.containers[ci]
         IN /\ Cardinality({i \in DOMAIN env : env[i].name = "FH_MONGODB_CONN_URL"}) = 1
            /\ \E i \in DOMAIN env : env[i] = EnvVar("FH_MONGODB_CONN_URL",
                                                     ExpectedMongoURL(call.before))
    /\ createCalls[templateDataMongo] = 1

-----------------------------------------------------------------------------
\* Order of the statuses of one Configure call

\* C16 (as claimed): the terminal status of the controller (succeeded or failed) is the
\* last status published under the call's key: no Configurer and no job-watcher of the
\* call publishes after it.
C16_TerminalStatusIsLast ==
  \A j \in DOMAIN published :
    (published[j].by = "controller" /\ published[j].status \in {configComplete, configError})
      => j = Len(published)

-----------------------------------------------------------------------------
\* Properties of the status keys

HasColon(str) == \E i \in 1..Len(str) : SubSeq(str, i, i) = ":"

SamePair(a, b) == a.InstanceID = b.InstanceID /\ a.Action = b.Action

\* C17 (as claimed): the same (instanceID, operation) pair always yields the same key
\* and two different pairs never yield the same key, whatever the strings.
C17_StatusKeyCollisionFree ==
  \A i, j \in DOMAIN store : SamePair(store[i], store[j]) <=> store[i].key = store[j].key

\* C17 (amended): the same pair always yields the same key, and two different pairs
\* whose operations hold no ':' never yield the same key, whatever the instance IDs.
C17_StatusKeyCollisionFreeWithoutColon ==
  \A i, j \in DOMAIN store :
    /\ SamePair(store[i], store[j]) => store[i].key = store[j].key
    /\ (~SamePair(store[i], store[j]) /\ ~HasColon(store[i].Action)
          /\ ~HasColon(store[j].Action)) => store[i].key # store[j].key

\* C17 witness: two statuses published for the same instance ID, which holds a ':',
\* and two different operations without ':'
C17_Witness ==
  /\ Len(store) = 2
  /\ store[1].InstanceID = store[2].InstanceID
  /\ HasColon(store[1].InstanceID)
  /\ store[1].Action # store[2].Action
  /\ ~HasColon(store[1].Action)
  /\ ~HasColon(store[2].Action)

\* C18 (as claimed): a LastAction request without a plan, for an instance and operation
\* under which Configure published, is answered with the status last published for
\* that instance and operation.
C18_PublishedStatusIsReadBack ==
  \A q \in Range(lastAction) :
    LET mine == {j \in DOMAIN store :
                   store[j].InstanceID = q.instance /\ store[j].Action = q.operation}
    IN (q.planID = "" /\ mine # {}) =>
         /\ q.found
         /\ q.status = store[CHOOSE j \in mine : \A i \in mine : i <= j].status

-----------------------------------------------------------------------------
\* Properties of ConfigurationFactory.Factory

\* C19: for each of the three service kinds Factory returns the strategy of that kind
\* with the status key 'instanceID:action' of the call's Configuration, and a strategy
\* in progress is registered on the wait-group of the call; for any other service kind
\* it panics: no Configurer is called for it, Configure is abandoned, and a call that
\* discovered such a sibling after a successful discovery never updates the descriptor.
C19_FactoryWiresOrPanics ==
  /\ \A k \in KnownKinds :
       Factory(k) = [panics |-> FALSE, kind |-> k, statusKey |-> "app1:provision"]
  /\ cur # NoCall => wg >= 1
  /\ \A call \in AllCalls : call.kind \in {"cache", "data-mongo", "data-mysql"}
  /\ \A n \in configured :
       n \notin {"cache", "data-mongo", "data-mysql"} => pc = "panicked"
  /\ (\E i \in DOMAIN services : services[i] \notin {"cache", "data-mongo", "data-mysql"})
       => pc # "update" /\ persisted = <<>>

\* C19 witness: Configure was abandoned at a sibling without a known rhmap/name, after
\* the Configurer of the sibling before it had run
C19_Witness ==
  /\ pc = "panicked"
  /\ Len(services) = 2
  /\ services[1] = "cache"
  /\ services[2] = ""
  /\ Len(calls) = 1
  /\ ~calls[1].panicked
  /\ persisted = <<>>

-----------------------------------------------------------------------------
\* Properties of the cache strategy

\* C20 (as claimed): after the cache strategy ran on a descriptor other than the cache
\* service, every FH_REDIS_HOST entry of every container holds 'data-cache', no entry
\* was added or removed, every other entry kept its value, containers without the
\* entry are unchanged, no job was submitted, and a second Configure changes nothing.
C20_EveryRedisHostIsRewritten ==
  \A call \in AllCalls :
    (call.kind = "cache" /\ call.before.labels["rhmap/name"] # "cache") =>
      /\ call.err = Nil
      /\ ~call.panicked
      /\ ~call.spawn
      /\ call.createCalls = 0
      /\ \A k \in DataKinds : createCalls[k] = 0
      /\ DOMAIN call.after.containers = DOMAIN call.before.containers
      /\ \A ci \in DOMAIN call.before.containers :
           LET old == call.before.containers[ci]
               new == call.after.containers[ci]
           IN /\ Len(new) = Len(old)
              /\ \A i \in DOMAIN old :
                   /\ new[i].name = old[i].name
                   /\ new[i].value = (IF old[i].name = "FH_REDIS_HOST"
                                       THEN "data-cache" ELSE old[i].value)
      /\ CacheRedisConfigure(call.after).depl = call.after

-----------------------------------------------------------------------------
\* Properties of the wait-group of a Configure call

\* The tasks that have registered on the wait-group and have not ended: the Configurer
\* call in progress and the watcher goroutines past their wait.Add(1)
Registered ==
  (IF cur = NoCall THEN 0 ELSE 1)
  + Cardinality({k \in DataKinds : watchers[k].pc \in {"watching", "returning"}})

\* C21: the counter of the wait-group is never negative, it counts exactly the tasks
\* that registered and have not ended (each registration is undone once, on every exit
\* path of a Configurer and of a watcher), and it is zero once every Configurer call
\* and every watcher goroutine of the call has ended.
C21_CounterMatchesRegisteredTasks ==
  /\ wg >= 0
  /\ wg = Registered
  /\ (cur = NoCall /\ \A k \in DataKinds : watchers[k].pc \in {"none", "done"}) => wg = 0

\* C21 witness: Configure returned after a Configurer that returned early with an error
\* and a second one whose watcher goroutine ran and ended
C21_Witness ==
  /\ pc = "done"
  /\ Len(calls) = 2
  /\ calls[1].err # Nil
  /\ calls[2].spawn
  /\ watchers[calls[2].kind].pc = "done"
  /\ watchers[calls[2].kind].seen >= 1
  /\ wg = 0

-----------------------------------------------------------------------------
\* Writers of the shared descriptor

\* C22: the descriptor is written by one task at a time: by the Configurer calls, one
\* after the other (each starts from what the one before it left, and what the last one
\* left is what the descriptor holds, whatever the watcher goroutines do meanwhile),
\* and by no task while the controller updates it or after it has.
C22_OneWriterAtATime ==
  /\ \A i \in 1..(Len(calls) - 1) : calls[i + 1].before = calls[i].after
  /\ cur # NoCall =>
       /\ deployment = cur.after
       /\ calls # <<>> => cur.before = calls[Len(calls)].after
       /\ persisted = <<>>
  /\ (cur = NoCall /\ calls # <<>>) => deployment = calls[Len(calls)].after
  /\ pc = "update" => cur = NoCall
  /\ persisted # <<>> => deployment = persisted[1].depl

\* C22 witness: the second Configurer writes the descriptor while the watcher goroutine
\* of the first is receiving the events of its job
C22_Witness ==
  /\ Len(calls) = 1
  /\ calls[1].spawn
  /\ calls[1].after # calls[1].before
  /\ watchers[calls[1].kind].pc = "watching"
  /\ watchers[calls[1].kind].seen >= 1
  /\ cur # NoCall
  /\ cur.after # cur.before

-----------------------------------------------------------------------------
\* Termination of the watchers and of Configure

\* The watcher of kind k has received a terminal event: a job that completed, a job
\* with a DeadlineExceeded condition, or an Error event
TerminalDelivered(k) == watchers[k].succeeded \/ watchers[k].deadline \/ watchers[k].error

\* C23 (as claimed): if the event stream of every watched job delivers a terminal event
\* (or is closed before), then every watcher goroutine ends, a watcher to which the
\* deadline of its job was reported ends too, and Configure returns (or is abandoned by
\* a panic).
C23_WatchersEndAndConfigureReturns ==
  (\A k \in DataKinds :
     (watchers[k].pc = "watching") ~> (TerminalDelivered(k) \/ watchers[k].pc = "done"))
  => /\ \A k \in DataKinds : (watchers[k].pc = "spawned") ~> (watchers[k].pc = "done")
     /\ \A k \in DataKinds : watchers[k].deadline ~> (watchers[k].pc = "done")
     /\ (pc = "start") ~> (pc \in {"done", "panicked"})

-----------------------------------------------------------------------------
\* Credentials written on the descriptor and the job they are for

\* CreateJobToWatch of the job of kind k was called and failed in the watcher goroutine
CreateFailedInWatcher(k) ==
  \E i \in DOMAIN published :
    published[i].by = Watcher(k) /\ published[i].msg = "failed to CreateJobToWatch"

\* The Configurer call went as far as handing a job over, and its creation did not fail
JobSubmitted(call) == call.spawn /\ ~CreateFailedInWatcher(call.kind)

\* C24 (as claimed): a call of a database Configurer that returns an error, or that stops
\* without handing over a job (a job already exists, its own descriptor), leaves the
\* descriptor as it was before the call; a call that changed the descriptor submitted a
\* job successfully; and a descriptor that was persisted holds no change of a call whose
\* job was not submitted.
C24_CredentialsOnlyWithSubmittedJob ==
  /\ \A call \in AllCalls :
       call.kind \in DataKinds =>
         /\ (call.err # Nil \/ ~call.spawn) => call.after = call.before
         /\ call.after # call.before => call.spawn
  /\ persisted # <<>> =>
       \A call \in Range(calls) :
         (call.kind \in DataKinds /\ call.after # call.before) => JobSubmitted(call)

====
